---- MODULE Spec2Model ----
(***************************************************************************)
(* Model of scripts/generate_manifest.py (AirDB update manifest).          *)
(*                                                                         *)
(* One run of main(): argument parsing, generate_manifest(), the scan of   *)
(* find_artifacts() with the chunked read of calculate_sha256(), and the   *)
(* final write of the output file.  The bundle directory is a file system  *)
(* that an external process may rewrite or delete from while the scan      *)
(* runs.  A second specification, SpecHash, runs calculate_sha256() alone   *)
(* over every small content and chunk size; a third, SpecTwice, runs the    *)
(* tool twice on the same inputs.                                           *)
(***************************************************************************)
EXTENDS Naturals, Sequences, FiniteSets, TLC

(* ------------------------------ bounds --------------------------------- *)

\* at most this many files in the bundle tree: Spec (every command line) and
\* SpecScan, SpecTwice (command lines that leave the metadata options out)
MaxMetaFiles == 1
MaxFiles == 2
\* at most this many steps of the external process during one run
MaxExt == 1
\* bytes read per f.read() call, scaled down from the 4096 of the source
ChunkSize == 2
\* SpecHash: longest content, largest chunk size, largest byte value
MaxLen == 4
MaxChunk == 3
MaxByte == 1
\* modulus of the model digest
HashMod == 251

(* --------------------------- value universes --------------------------- *)

\* an optional value: Python's None, or a value that is there
None == << "None" >>
Some(v) == << "Some", v >>
Get(opt) == opt[2]

Platforms == {"linux", "windows", "macos"}
PlatformOrder == <<"linux", "windows", "macos">>

\* the version every file of the bundle tree was built for
FileVersion == "1.2.0"
\* --version values: absent, empty, the bundle's version, another version
ArgVersions == {None, Some(""), Some(FileVersion), Some("1.1.0")}
ArgChannels == {None, Some("beta")}
ArgMinVersions == {None, Some("0.2.0")}
ArgChangelogs == {None, Some(<<"fix">>)}
ArgBundleDirs == {None, Some("missing"), Some("bundle")}
\* directories that exist on disk
ExistingDirs == {"bundle"}
\* values of the clock at generation time
Dates == {"2026-01-01", "2026-01-02"}

\* sub-directories of the bundle tree and the file name tails found there
Dirs == {"d1", "d2"}
Tails == { [arch |-> "_amd64", ext |-> ".AppImage"],
           [arch |-> "_amd64", ext |-> ".deb"],
           [arch |-> "_x64-setup", ext |-> ".exe"],
           [arch |-> "_x64_en-US", ext |-> ".msi"],
           [arch |-> "_x64", ext |-> ".dmg"],
           [arch |-> "_aarch64", ext |-> ".dmg"] }
AllPaths == { [dir |-> d, stem |-> "airdb_" \o FileVersion \o t.arch, suffix |-> t.ext] :
              d \in Dirs, t \in Tails }
\* file contents (byte strings) of the bundle files
Contents == { <<1>>, <<2, 1, 3>> }

(* ------------------------- calculate_sha256 ---------------------------- *)

\* hashlib.sha256(): the state of a fresh hash object
sha256_new == 7

\* sha256_hash.update(chunk): absorbs the bytes of chunk in order
RECURSIVE sha256_update(_, _)
sha256_update(h, chunk) ==
    IF chunk = <<>> THEN h
    ELSE sha256_update((h * 31 + Head(chunk) + 1) % HashMod, Tail(chunk))

\* sha256_hash.hexdigest()
hexdigest(h) == h

\* f.read(n) that gives nothing when fewer than n bytes are left
f_read_whole_chunks(content, pos, n) ==
    IF pos + n <= Len(content) THEN SubSeq(content, pos + 1, pos + n) ELSE <<>>

\* f.read(n) at offset pos of a file holding content
f_read(content, pos, n) ==
    SubSeq(content, pos + 1, IF pos + n < Len(content) THEN pos + n ELSE Len(content))

(* --------------------------- find_artifacts ---------------------------- *)

\* file.name
Name(file) == file.stem \o file.suffix

\* the ordered glob patterns of a platform, without the leading "**/"
Patterns(p, version) ==
    CASE p = "linux"   -> << "airdb_" \o version \o "_amd64.AppImage",
                             "airdb_" \o version \o "_amd64.deb" >>
      [] p = "windows" -> << "airdb_" \o version \o "_x64-setup.exe",
                             "airdb_" \o version \o "_x64_en-US.msi" >>
      [] p = "macos"   -> << "airdb_" \o version \o "_x64.dmg",
                             "airdb_" \o version \o "_aarch64.dmg" >>

\* a linux loop that takes the .deb package as well
Accepted_with_deb(p) ==
    CASE p = "linux"   -> {".AppImage", ".deb"}
      [] p = "windows" -> {".exe", ".msi"}
      [] p = "macos"   -> {".dmg"}

\* the suffixes a platform's loop accepts
Accepted(p) ==
    CASE p = "linux"   -> {".AppImage"}
      [] p = "windows" -> {".exe", ".msi"}
      [] p = "macos"   -> {".dmg"}

\* bundle_dir.glob("**/" + pattern): the files of the tree with that name
Glob(tree, pattern) == { f \in DOMAIN tree : Name(f) = pattern }

\* a url whose release tag lacks the leading v
Url_without_v(version, filename) ==
    "https://github.com/Codeenk/airdb/releases/download/" \o version \o "/" \o filename

\* the url of an ArtifactRecord
Url(version, filename) ==
    "https://github.com/Codeenk/airdb/releases/download/v" \o version \o "/" \o filename

\* the dict stored in artifacts[p]
ArtifactRecord(version, file, digest, size) ==
    [ url |-> Url(version, Name(file)),
      sha256 |-> digest,
      size |-> size,
      filename |-> Name(file) ]

(* -------------------------- generate_manifest -------------------------- *)

DefaultChannel == "stable"
DefaultMinVersion == "0.1.0"

\* a parameter with a default value
OrDefault(opt, default) == IF opt = None THEN default ELSE Get(opt)

\* the changelog handed on as it came
Changelog_as_given(opt) == IF opt = None THEN None ELSE Get(opt)

\* changelog or []
ChangelogOrEmpty(opt) == IF opt = None \/ Get(opt) = <<>> THEN <<>> ELSE Get(opt)

\* the manifest dict as first built, artifacts still empty
NewManifest(version, channel, min_version, changelog, date) ==
    [ version |-> version,
      channel |-> channel,
      release_date |-> date,
      min_supported_version |-> min_version,
      changelog |-> ChangelogOrEmpty(changelog),
      artifacts |-> << >>,
      signature |-> "" ]

\* the test without bundle_dir.exists()
BundleUsable_unchecked(bundle_dir) == bundle_dir # None

\* bundle_dir and bundle_dir.exists()
BundleUsable(bundle_dir) == bundle_dir # None /\ Get(bundle_dir) \in ExistingDirs

\* file.stat().st_size of a file holding content
st_size(content) == Len(content)

(* ------------------------------- state --------------------------------- *)

VARIABLES
    argv,       \* the command line: each option is None or Some(value)
    pc,         \* position of main(): start, assemble, locate, generated, dump, done,
                \*   usage_error, io_error; SpecHash: hashing, hash_stat, hashed
    args,       \* the parsed argument namespace
    manifest,   \* None, or Some(the manifest dict of generate_manifest)
    artifacts,  \* the artifacts dict local to find_artifacts
    fs,         \* the bundle tree: existing file -> content
    out,        \* the output file: absent, old, truncated or written, and its data
    plat,       \* index in PlatformOrder of the platform loop being run (4: past the last)
    pat,        \* index of the pattern of the outer for loop
    phase,      \* glob, open, read, stat: position inside the loops of one platform
    cur,        \* None, or Some(file): the loop variable of the inner for loop
    handle,     \* None, or Some(content seen through the open file object)
    pos,        \* offset of the open file object
    hstate,     \* state of sha256_hash
    fed,        \* the bytes given to sha256_hash.update so far, in order
    sha,        \* the value calculate_sha256 returned for cur
    chunk,      \* the size asked of f.read
    size,       \* SpecHash: the st_size read after hashing
    nsha,       \* per platform: calls of calculate_sha256 in this run
    nset,       \* per platform: assignments to artifacts[platform] in this run
    nglob,      \* per platform: patterns searched after the platform's first record
    ncalls,     \* calls of find_artifacts in this run
    extOps,     \* steps the external process has taken
    touched,    \* the external process wrote cur since it was opened
    scan,       \* per platform: the bytes hashed for its record, and touched
    first       \* SpecTwice: None, or Some(manifest of the first run)

vars == << argv, pc, args, manifest, artifacts, fs, out, plat, pat, phase, cur, handle, pos,
           hstate, fed, sha, chunk, size, nsha, nset, nglob, ncalls, extOps, touched,
           scan, first >>

locals == << plat, pat, phase, cur, handle, pos, hstate, fed, sha >>
ghosts == << nsha, nset, nglob, ncalls, scan >>

NoArtifacts == << >>
NoArgs == [version |-> "", channel |-> "", min_version |-> "", changelog |-> None,
           bundle_dir |-> None]
ZeroCount == [p \in Platforms |-> 0]
NoScan == [p \in Platforms |-> [fed |-> <<>>, touched |-> FALSE]]

\* the bundle trees of at most n files
Trees(n) == UNION { [S -> Contents] : S \in { T \in SUBSET AllPaths : Cardinality(T) <= n } }

\* the command lines
Argvs == [ version : ArgVersions, channel : ArgChannels, min_version : ArgMinVersions,
           changelog : ArgChangelogs, bundle_dir : ArgBundleDirs ]
\* the command lines that give no --channel, --min-version or --changelog
PlainArgvs == { a \in Argvs : a.channel = None /\ a.min_version = None /\ a.changelog = None }

\* the state before find_artifacts has run
LocalsAtRest ==
    /\ plat = 1 /\ pat = 1 /\ phase = "glob" /\ cur = None /\ handle = None
    /\ pos = 0 /\ hstate = sha256_new /\ fed = <<>> /\ sha = 0
    /\ artifacts = NoArtifacts /\ touched = FALSE

GhostsAtRest ==
    /\ nsha = ZeroCount /\ nset = ZeroCount /\ nglob = ZeroCount /\ ncalls = 0
    /\ scan = NoScan

\* the state when main() is entered
AtStart ==
    /\ pc = "start"
    /\ args = NoArgs
    /\ manifest = None
    /\ out \in { [state |-> "absent", data |-> None], [state |-> "old", data |-> None] }
    /\ chunk = ChunkSize
    /\ size = 0
    /\ extOps = 0
    /\ first = None
    /\ LocalsAtRest
    /\ GhostsAtRest

Init ==
    /\ argv \in Argvs
    /\ fs \in Trees(MaxMetaFiles)
    /\ AtStart

InitScan ==
    /\ argv \in PlainArgvs
    /\ fs \in Trees(MaxFiles)
    /\ AtStart

(* -------------------------------- main --------------------------------- *)

\* parser.parse_args(): --version is required, the other options have defaults
ParseArgs ==
    /\ pc = "start"
    /\ IF argv.version = None
       THEN /\ pc' = "usage_error"
            /\ args' = args
       ELSE /\ pc' = "assemble"
            /\ args' = [ version |-> Get(argv.version),
                         channel |-> OrDefault(argv.channel, DefaultChannel),
                         min_version |-> OrDefault(argv.min_version, DefaultMinVersion),
                         changelog |-> argv.changelog,
                         bundle_dir |-> argv.bundle_dir ]
    /\ UNCHANGED << argv, manifest, artifacts, fs, out, locals, chunk, size, ghosts, extOps,
                    touched, first >>

\* generate_manifest up to the test of bundle_dir: the manifest dict is built,
\* then find_artifacts is entered or the manifest is returned as it is
Assemble ==
    /\ pc = "assemble"
    /\ \E d \in Dates :
          manifest' = Some(NewManifest(args.version, args.channel, args.min_version,
                                       args.changelog, d))
    /\ IF BundleUsable(args.bundle_dir)
       THEN /\ pc' = "locate"
            /\ ncalls' = ncalls + 1
       ELSE /\ pc' = "generated"
            /\ ncalls' = ncalls
    /\ UNCHANGED << argv, args, artifacts, fs, out, locals, chunk, size, nsha, nset, nglob, scan,
                    extOps, touched, first >>

(* --------------------------- the scan loops ---------------------------- *)

\* the loop position after the inner for loop over one pattern's matches ran out
AfterPattern(pl, pa) == IF pa < 2 THEN << pl, pa + 1 >> ELSE << pl + 1, 1 >>

\* the loop position after break: break leaves the inner for loop only, the
\* outer for loop goes on with the platform's next pattern
AfterBreak(pl, pa) == AfterPattern(pl, pa)

\* the matches of a pattern that pass the platform's suffix test
AcceptedMatches(tree, p, pattern) == { f \in Glob(tree, pattern) : f.suffix \in Accepted(p) }

\* one f.read(chunk) of the loop of calculate_sha256 and the update that follows;
\* an empty read ends the loop and the digest is returned
ReadStep(done) ==
    LET data == f_read(Get(handle), pos, chunk) IN
    IF data = <<>>
    THEN /\ sha' = hexdigest(hstate)
         /\ handle' = None
         /\ pc' = done
         /\ UNCHANGED << pos, hstate, fed >>
    ELSE /\ hstate' = sha256_update(hstate, data)
         /\ pos' = pos + Len(data)
         /\ fed' = fed \o data
         /\ UNCHANGED << sha, handle, pc >>

\* for pattern in patterns: for file in bundle_dir.glob(pattern): the inner loop
\* runs up to its first file with an accepted suffix; the order of the matches
\* is that of the directory scan, which nothing fixes
GlobPattern ==
    /\ pc = "locate" /\ phase = "glob" /\ plat <= 3
    /\ LET p == PlatformOrder[plat]
           acc == AcceptedMatches(fs, p, Patterns(p, args.version)[pat])
       IN  /\ nglob' = [nglob EXCEPT ![p] = IF nset[p] > 0 THEN @ + 1 ELSE @]
           /\ IF acc = {}
              THEN /\ plat' = AfterPattern(plat, pat)[1]
                   /\ pat' = AfterPattern(plat, pat)[2]
                   /\ UNCHANGED << cur, phase >>
              ELSE /\ \E f \in acc : cur' = Some(f)
                   /\ phase' = "open"
                   /\ UNCHANGED << plat, pat >>
    /\ UNCHANGED << argv, pc, args, manifest, artifacts, fs, out, handle, pos, hstate, fed, sha,
                    chunk, size, nsha, nset, ncalls, scan, extOps, touched, first >>

\* calculate_sha256(file): open(filepath, "rb")
OpenFile ==
    /\ pc = "locate" /\ phase = "open"
    /\ nsha' = [nsha EXCEPT ![PlatformOrder[plat]] = @ + 1]
    /\ IF Get(cur) \in DOMAIN fs
       THEN /\ handle' = Some(fs[Get(cur)])
            /\ pos' = 0
            /\ hstate' = sha256_new
            /\ fed' = <<>>
            /\ touched' = FALSE
            /\ phase' = "read"
            /\ pc' = pc
       ELSE /\ pc' = "io_error"
            /\ UNCHANGED << handle, pos, hstate, fed, touched, phase >>
    /\ UNCHANGED << argv, args, manifest, artifacts, fs, out, plat, pat, cur, sha, chunk, size,
                    nset, nglob, ncalls, scan, extOps, first >>

\* calculate_sha256(file): one turn of the read loop
ReadChunk ==
    /\ pc = "locate" /\ phase = "read"
    /\ ReadStep("locate")
    /\ phase' = IF f_read(Get(handle), pos, chunk) = <<>> THEN "stat" ELSE "read"
    /\ UNCHANGED << argv, args, manifest, artifacts, fs, out, plat, pat, cur, chunk, size,
                    ghosts, extOps, touched, first >>

\* file.stat().st_size, artifacts[platform] = {...}, break
StatFile ==
    /\ pc = "locate" /\ phase = "stat"
    /\ LET p == PlatformOrder[plat] IN
       IF Get(cur) \in DOMAIN fs
       THEN /\ artifacts' = [ q \in DOMAIN artifacts \cup {p} |->
                                IF q = p
                                THEN ArtifactRecord(args.version, Get(cur), sha,
                                                    st_size(fs[Get(cur)]))
                                ELSE artifacts[q] ]
            /\ nset' = [nset EXCEPT ![p] = @ + 1]
            /\ scan' = [scan EXCEPT ![p] = [fed |-> fed, touched |-> touched]]
            /\ plat' = AfterBreak(plat, pat)[1]
            /\ pat' = AfterBreak(plat, pat)[2]
            /\ phase' = "glob"
            /\ cur' = None
            /\ pc' = pc
       ELSE /\ pc' = "io_error"
            /\ UNCHANGED << artifacts, nset, scan, plat, pat, phase, cur >>
    /\ UNCHANGED << argv, args, manifest, fs, out, handle, pos, hstate, fed, sha, chunk, size,
                    nsha, nglob, ncalls, extOps, touched, first >>

\* return artifacts; manifest["artifacts"] = ...; return manifest
ReturnArtifacts ==
    /\ pc = "locate" /\ phase = "glob" /\ plat = 4
    /\ manifest' = Some([Get(manifest) EXCEPT !.artifacts = artifacts])
    /\ pc' = "generated"
    /\ UNCHANGED << argv, args, artifacts, fs, out, locals, chunk, size, ghosts, extOps, touched,
                    first >>

\* the output file opened while find_artifacts is still running
OpenOutput_early ==
    /\ pc \in {"generated", "locate"}
    /\ out' = [state |-> "truncated", data |-> None]
    /\ pc' = "dump"
    /\ UNCHANGED << argv, args, manifest, artifacts, fs, locals, chunk, size, ghosts, extOps,
                    touched, first >>

\* with open(args.output, "w"): the file is created or truncated
OpenOutput ==
    /\ pc = "generated"
    /\ out' = [state |-> "truncated", data |-> None]
    /\ pc' = "dump"
    /\ UNCHANGED << argv, args, manifest, artifacts, fs, locals, chunk, size, ghosts, extOps,
                    touched, first >>

\* json.dump(manifest, f, indent=2)
DumpOutput ==
    /\ pc = "dump"
    /\ out' = [state |-> "written", data |-> manifest]
    /\ pc' = "done"
    /\ UNCHANGED << argv, args, manifest, artifacts, fs, locals, chunk, size, ghosts, extOps,
                    touched, first >>

(* ------------------------ the external process ------------------------- *)

\* The external process is followed on the file the scan has matched and not
\* yet recorded (cur): a step of it on any other file leaves the run what it is
\* from another starting tree.

\* another process rewrites the matched file in place while the scan runs
ExtRewrite ==
    /\ pc = "locate" /\ extOps < MaxExt
    /\ \E f \in DOMAIN fs, c \in Contents :
          /\ cur = Some(f)
          /\ c # fs[f]
          /\ fs' = [fs EXCEPT ![f] = c]
          /\ IF phase \in {"read", "stat"}
             THEN /\ touched' = TRUE
                  /\ handle' = IF handle = None THEN None ELSE Some(c)
             ELSE UNCHANGED << touched, handle >>
    /\ extOps' = extOps + 1
    /\ UNCHANGED << argv, pc, args, manifest, artifacts, out, plat, pat, phase, cur, pos, hstate,
                    fed, sha, chunk, size, ghosts, first >>

\* another process deletes the matched file while the scan runs; a file object
\* already open on it keeps reading the old content
ExtDelete ==
    /\ pc = "locate" /\ extOps < MaxExt
    /\ \E f \in DOMAIN fs :
          /\ cur = Some(f)
          /\ fs' = [g \in DOMAIN fs \ {f} |-> fs[g]]
    /\ extOps' = extOps + 1
    /\ UNCHANGED << argv, pc, args, manifest, artifacts, out, locals, chunk, size, ghosts, touched,
                    first >>

Next ==
    \/ ParseArgs
    \/ Assemble
    \/ GlobPattern
    \/ OpenFile
    \/ ReadChunk
    \/ StatFile
    \/ ReturnArtifacts
    \/ OpenOutput
    \/ DumpOutput
    \/ ExtRewrite
    \/ ExtDelete

Spec == Init /\ [][Next]_vars

SpecScan == InitScan /\ [][Next]_vars

(* ---------------------- calculate_sha256 on its own -------------------- *)

Bytes == 0 .. MaxByte
ByteStrings == UNION { [1 .. n -> Bytes] : n \in 0 .. MaxLen }
HashPath == [dir |-> "d1", stem |-> "airdb_" \o FileVersion \o "_amd64", suffix |-> ".AppImage"]

\* one file of any content, about to be hashed with reads of any chunk size
InitHash ==
    /\ argv \in { a \in PlainArgvs : a.version = Some(FileVersion) /\ a.bundle_dir = Some("bundle") }
    /\ pc = "hash_open"
    /\ args = NoArgs
    /\ manifest = None
    /\ \E c \in ByteStrings : fs = [f \in {HashPath} |-> c]
    /\ out = [state |-> "absent", data |-> None]
    /\ chunk \in 1 .. MaxChunk
    /\ size = 0
    /\ extOps = 0
    /\ first = None
    /\ LocalsAtRest
    /\ GhostsAtRest

\* open(filepath, "rb") and hashlib.sha256()
HashOpen ==
    /\ pc = "hash_open"
    /\ cur' = Some(HashPath)
    /\ handle' = Some(fs[HashPath])
    /\ pos' = 0
    /\ hstate' = sha256_new
    /\ fed' = <<>>
    /\ pc' = "hashing"
    /\ UNCHANGED << argv, args, manifest, artifacts, fs, out, plat, pat, phase, sha, chunk,
                    size, ghosts, extOps, touched, first >>

\* one turn of the read loop
HashRead ==
    /\ pc = "hashing"
    /\ ReadStep("hash_stat")
    /\ UNCHANGED << argv, args, manifest, artifacts, fs, out, plat, pat, phase, cur, chunk,
                    size, ghosts, extOps, touched, first >>

\* file.stat().st_size, read after the digest
HashStat ==
    /\ pc = "hash_stat"
    /\ size' = st_size(fs[Get(cur)])
    /\ pc' = "hashed"
    /\ UNCHANGED << argv, args, manifest, artifacts, fs, out, locals, chunk, ghosts, extOps,
                    touched, first >>

NextHash == HashOpen \/ HashRead \/ HashStat

SpecHash == InitHash /\ [][NextHash]_vars

(* ------------------------- the tool run twice -------------------------- *)

\* main() is run again on the same command line once the first run is done
Rerun ==
    /\ pc = "done" /\ first = None
    /\ first' = manifest
    /\ pc' = "start"
    /\ args' = NoArgs
    /\ manifest' = None
    /\ artifacts' = NoArtifacts
    /\ nsha' = ZeroCount /\ nset' = ZeroCount /\ nglob' = ZeroCount /\ ncalls' = 0
    /\ scan' = NoScan
    /\ plat' = 1 /\ pat' = 1 /\ phase' = "glob" /\ cur' = None /\ handle' = None
    /\ pos' = 0 /\ hstate' = sha256_new /\ fed' = <<>> /\ sha' = 0 /\ touched' = FALSE
    /\ UNCHANGED << argv, fs, out, chunk, size, extOps >>

NextTwice == Next \/ Rerun

SpecTwice == InitScan /\ [][NextTwice]_vars

(* ------------------------------ properties ----------------------------- *)

\* generate_manifest has returned its manifest
Returned == pc \in {"generated", "dump", "done"}

\* the output file is as it was before the run
OutputUntouched == out.state \in {"absent", "old"} /\ out.data = None

\* section 4.1 of the specification: the file names a platform looks for, in
\* priority order, and the extensions it takes
SpecNames(p, v) ==
    CASE p = "linux"   -> << "airdb_" \o v \o "_amd64.AppImage", "airdb_" \o v \o "_amd64.deb" >>
      [] p = "windows" -> << "airdb_" \o v \o "_x64-setup.exe", "airdb_" \o v \o "_x64_en-US.msi" >>
      [] p = "macos"   -> << "airdb_" \o v \o "_x64.dmg", "airdb_" \o v \o "_aarch64.dmg" >>
SpecExts(p) ==
    CASE p = "linux"   -> {".AppImage"}
      [] p = "windows" -> {".exe", ".msi"}
      [] p = "macos"   -> {".dmg"}
\* the tree holds a file for the i-th name of platform p with an extension p takes
Present(p, v, i) == \E f \in DOMAIN fs : Name(f) = SpecNames(p, v)[i] /\ f.suffix \in SpecExts(p)

\* C1: when files for two patterns of a platform are in the tree, the record of
\* find_artifacts is the file of the earliest pattern.
C1_PatternPriority ==
    (Returned /\ ncalls = 1 /\ extOps = 0) =>
        \A p \in {"linux", "windows", "macos"} :
            (Present(p, args.version, 1) /\ Present(p, args.version, 2)) =>
                /\ p \in DOMAIN Get(manifest).artifacts
                /\ Get(manifest).artifacts[p].filename = SpecNames(p, args.version)[1]

\* C2: a missing or empty version yields no manifest and no output file; every
\* manifest has a non-empty version.
C2_VersionRequired ==
    /\ manifest # None => Get(manifest).version # ""
    /\ argv.version \in {None, Some("")} => (manifest = None /\ OutputUntouched)

C4_KeysIffPresent ==
    (Returned /\ ncalls = 1) =>
        LET keys == DOMAIN Get(manifest).artifacts
            v == args.version
        IN  /\ keys \subseteq {"linux", "windows", "macos"}
            /\ extOps = 0 =>
                 \A p \in {"linux", "windows", "macos"} :
                    p \in keys <=> (Present(p, v, 1) \/ Present(p, v, 2))
            /\ \A p \in keys :
                 Get(manifest).artifacts[p].filename \in
                    CASE p = "linux"   -> { "airdb_" \o v \o "_amd64.AppImage" }
                      [] p = "windows" -> { "airdb_" \o v \o "_x64-setup.exe",
                                            "airdb_" \o v \o "_x64_en-US.msi" }
                      [] p = "macos"   -> { "airdb_" \o v \o "_x64.dmg",
                                            "airdb_" \o v \o "_aarch64.dmg" }
            /\ ( /\ extOps = 0 /\ v = "1.2.0" /\ DOMAIN fs # {}
                 /\ \A f \in DOMAIN fs : Name(f) = "airdb_1.2.0_amd64.AppImage" )
               => keys = {"linux"}
\* a tree with a .deb package and a windows installer gives windows only
C4_Witness ==
    /\ pc = "done" /\ ncalls = 1 /\ extOps = 0 /\ args.version = "1.2.0"
    /\ \E f \in DOMAIN fs : f.suffix = ".deb"
    /\ \E f \in DOMAIN fs : f.suffix = ".exe"
    /\ DOMAIN Get(manifest).artifacts = {"windows"}

\* C5: two runs on the same command line and the same tree give the same
\* artifacts, version, channel, min_supported_version and changelog.
C5_Deterministic ==
    (first # None /\ Returned /\ extOps = 0) =>
        /\ Get(manifest).artifacts = Get(first).artifacts
        /\ Get(manifest).version = Get(first).version
        /\ Get(manifest).channel = Get(first).channel
        /\ Get(manifest).min_supported_version = Get(first).min_supported_version
        /\ Get(manifest).changelog = Get(first).changelog

\* C6: without a bundle directory that exists, find_artifacts is not called, the
\* run does not fail and artifacts is empty; with one, artifacts is what
\* find_artifacts returned.
C6_BundleOptional ==
    /\ argv.bundle_dir # Some("bundle") => (ncalls = 0 /\ pc # "io_error")
    /\ Returned =>
         IF argv.bundle_dir = Some("bundle")
         THEN ncalls = 1 /\ Get(manifest).artifacts = artifacts
         ELSE DOMAIN Get(manifest).artifacts = {}
\* a run with a bundle directory that does not exist, beside a tree with a file
C6_Witness ==
    /\ pc = "done" /\ argv.bundle_dir = Some("missing") /\ DOMAIN fs # {}
    /\ Get(out.data).artifacts = << >>

\* C7: every manifest has exactly the seven top-level keys; artifacts is a
\* mapping over platforms, changelog a sequence (empty when none is given),
\* channel and min_supported_version have their defaults when omitted, and
\* signature is the empty string.
C7_ManifestShape ==
    manifest # None =>
        LET m == Get(manifest) IN
        /\ DOMAIN m = { "version", "channel", "release_date", "min_supported_version",
                        "changelog", "artifacts", "signature" }
        /\ DOMAIN m.artifacts \subseteq {"linux", "windows", "macos"}
        /\ m.signature = ""
        /\ m.version = Get(argv.version)
        /\ m.channel = (IF argv.channel = None THEN "stable" ELSE Get(argv.channel))
        /\ m.min_supported_version =
              (IF argv.min_version = None THEN "0.1.0" ELSE Get(argv.min_version))
        /\ m.changelog = (IF argv.changelog = None THEN << >> ELSE Get(argv.changelog))
\* version 1.2.0 and nothing else on the command line
C7_Witness ==
    /\ pc = "done"
    /\ argv = [version |-> Some("1.2.0"), channel |-> None, min_version |-> None,
               changelog |-> None, bundle_dir |-> None]
    /\ Get(out.data).channel = "stable" /\ Get(out.data).artifacts = << >>

\* C8: the hash is given exactly the bytes of the file, each once and in order,
\* so the digest is that of the whole content whatever the chunk size, and the
\* size read is the number of bytes.
C8_ChunkingInvisible ==
    LET content == fs[HashPath] IN
    /\ pc \in {"hashing", "hash_stat", "hashed"} => fed = SubSeq(content, 1, pos)
    /\ pc \in {"hash_stat", "hashed"} =>
          /\ fed = content
          /\ sha = hexdigest(sha256_update(sha256_new, content))
    /\ pc = "hashed" => size = Len(content)
\* a content of exactly two chunks has been hashed
C8_Witness ==
    /\ pc = "hashed" /\ chunk = 2 /\ Len(fs[HashPath]) = 4
    /\ fed = fs[HashPath] /\ size = 4

\* C9: per platform and run there is at most one checksum and one record, and
\* no pattern is searched once the platform has its record.
C9_EarlyTermination ==
    \A p \in {"linux", "windows", "macos"} : nsha[p] <= 1 /\ nset[p] <= 1 /\ nglob[p] = 0

\* the record of platform p agrees with the bytes hashed for it
RecordConsistent(p) ==
    /\ artifacts[p].size = Len(scan[p].fed)
    /\ artifacts[p].sha256 = hexdigest(sha256_update(sha256_new, scan[p].fed))
    /\ artifacts[p].url =
          "https://github.com/Codeenk/airdb/releases/download/v" \o args.version \o "/"
             \o artifacts[p].filename
    /\ \E i \in 1 .. 2 : artifacts[p].filename = SpecNames(p, args.version)[i]

\* C10 as claimed: in every record, whatever the external process does, size
\* is the length of the bytes hashed, sha256 their digest, and url the template.
C10_SelfConsistent ==
    pc \in {"locate", "generated", "dump", "done"} =>
        \A p \in DOMAIN artifacts : RecordConsistent(p)

\* C10 as amended: the same, for every record whose file the external process
\* did not write between its opening for the checksum and the read of its size.
C10_SelfConsistentUntouched ==
    pc \in {"locate", "generated", "dump", "done"} =>
        \A p \in DOMAIN artifacts : ~scan[p].touched => RecordConsistent(p)
\* a record made of a file the external process rewrote just before it was opened
C10_Witness ==
    /\ pc = "done" /\ extOps = 1
    /\ \E p \in DOMAIN artifacts : ~scan[p].touched /\ artifacts[p].size = 3

====
